---- MODULE Spec2Model ----
(***************************************************************************)
(* QuickMapMaker (src/notebooks/g3mapmaker.py): a G3 pipeline module that  *)
(* bins multi-detector time-ordered data into a 2D sky map.                *)
(*                                                                         *)
(* Numbers.  Angles are held as integers in half-degrees (Deg(d) = 2*d),   *)
(* so that the grid with edges [-0.5, 0, 0.5] degrees is representable.    *)
(* Bin edges produced by np.linspace are rationals; they are compared by   *)
(* cross-multiplication (EdgeNum / EdgeDen), never rounded.  Quaternions   *)
(* are integer 4-tuples taken from the rotation group of the cube;         *)
(* scipy's Rotation.from_quat normalises its input, so the rotated         *)
(* unit vector is kept as an integer numerator over the squared norm.      *)
(* Signal samples are integers, and raw samples are multiples of the gain  *)
(* so that raw/gain is exact.                                              *)
(***************************************************************************)
EXTENDS Integers, Sequences, FiniteSets, TLC

VARIABLES
    args,             \* constructor arguments: [ra0, dec0, xlen, ylen, res]
    ctor_error,       \* exception raised by __init__, or "none"
    nx,               \* self.nx
    ny,               \* self.ny
    sky_map,          \* self.sky_map   : pixel -> summed signal
    hits_map,         \* self.hits_map  : pixel -> number of samples
    det_offset_dict,  \* self.det_offset_dict : detector id -> quaternion
    pc,               \* "idle", or "done": a Process call has just ended
    frame,            \* the argument of that call
    returned,         \* what that call returned: "frame" (its argument), "None"
    raised,           \* the exception that call raised, or "none"
    final_map,        \* the local final_map of that call (EndProcessing only)
    shown_map         \* history: the final_map of the latest earlier call on
                      \* an EndProcessing frame, forgotten as soon as a Scan
                      \* frame is handled

vars == <<args, ctor_error, nx, ny, sky_map, hits_map, det_offset_dict,
          pc, frame, returned, raised, final_map, shown_map>>

self_vars == <<args, ctor_error, nx, ny, sky_map, hits_map, det_offset_dict>>

(***************************************************************************)
(* Bounds of the model.                                                    *)
(***************************************************************************)
MaxSamples == 1      \* time samples per Scan frame
MaxHits == 2         \* cap on the total of hits_map

(***************************************************************************)
(* Small arithmetic helpers.                                               *)
(***************************************************************************)
Abs(x) == IF x < 0 THEN -x ELSE x

RECURSIVE SumOver(_, _)
SumOver(S, f) ==
    IF S = {} THEN 0
    ELSE LET x == CHOOSE y \in S : TRUE
         IN  f[x] + SumOver(S \ {x}, f)

\* np.degrees, in the model's angle unit (half-degrees)
Deg(d) == 2 * d

\* Python's int(a / b) for b # 0: true division, truncated towards zero
IntDiv(a, b) ==
    IF (a >= 0) = (b > 0) THEN Abs(a) \div Abs(b) ELSE -(Abs(a) \div Abs(b))

(***************************************************************************)
(* Construction: QuickMapMaker.__init__                                    *)
(***************************************************************************)
\* Constructor arguments tried (half-degrees).  The first is the 2x2 grid
\* with edges [-0.5, 0, 0.5] degrees on both axes; the second is the 2x2
\* grid with edges [0, 45, 90] degrees on both axes; the third has an
\* extent that is no multiple of the resolution; the others have a
\* resolution larger than the extent, zero, or negative.
Configs ==
    { [ra0 |-> 0,  dec0 |-> 0, xlen |-> 2,   ylen |-> 2,   res |-> 1],
      [ra0 |-> 90, dec0 |-> 90, xlen |-> 180, ylen |-> 180, res |-> 90],
      [ra0 |-> 0,  dec0 |-> 0, xlen |-> 3,   ylen |-> 2,   res |-> 2],
      [ra0 |-> 0,  dec0 |-> 0, xlen |-> 2,   ylen |-> 2,   res |-> 4],
      [ra0 |-> 0,  dec0 |-> 0, xlen |-> 2,   ylen |-> 400, res |-> 400],
      [ra0 |-> 0,  dec0 |-> 0, xlen |-> 2,   ylen |-> 2,   res |-> 0],
      [ra0 |-> 0,  dec0 |-> 0, xlen |-> 2,   ylen |-> 2,   res |-> -1],
      [ra0 |-> 0,  dec0 |-> 0, xlen |-> 2,   ylen |-> 2,   res |-> -4] }

Pixels(rows, cols) == (0 .. rows - 1) \X (0 .. cols - 1)

\* __init__: the fields it sets, or the exception it raises.
\*   int(xlen / res) raises ZeroDivisionError when res = 0;
\*   np.linspace(a, b, n + 1) raises ValueError when n + 1 < 0;
\*   np.zeros((ny, nx)) raises ValueError when a dimension is negative.
\* Nothing else in __init__ checks its arguments.
Construct(a) ==
    IF a.res = 0
    THEN [error |-> "ZeroDivisionError", nx |-> 0, ny |-> 0]
    ELSE LET cols == IntDiv(a.xlen, a.res)
             rows == IntDiv(a.ylen, a.res)
         IN  IF cols + 1 < 0 \/ rows + 1 < 0 \/ cols < 0 \/ rows < 0
             THEN [error |-> "ValueError", nx |-> cols, ny |-> rows]
             ELSE [error |-> "none", nx |-> cols, ny |-> rows]

\* np.linspace(-len/2, len/2, n + 1) + c, entry i, as EdgeNum / EdgeDen.
\* With n = 0 the single edge is the start, -len/2 + c.
EdgeDen(n) == IF n = 0 THEN 2 ELSE 2 * n

EdgeNum(len, n, c, i) ==
    IF n = 0 THEN 2 * c - len
    ELSE 2 * n * c - len * n + 2 * i * len

(***************************************************************************)
(* Pointing reconstruction (Process, Scan branch, lines 74-103).           *)
(* A quaternion in scipy's vector-first layout is <<x, y, z, w>>.          *)
(***************************************************************************)
\* boresight_q[:, [1,2,3,0]]: scalar-first <<w, x, y, z>> to vector-first
VectorFirst(q) == <<q[2], q[3], q[4], q[1]>>

\* Rotation product p * q (apply q, then p): the Hamilton product p (x) q
QuatMul(p, q) ==
    << p[4]*q[1] + p[1]*q[4] + p[2]*q[3] - p[3]*q[2],
       p[4]*q[2] - p[1]*q[3] + p[2]*q[4] + p[3]*q[1],
       p[4]*q[3] + p[1]*q[2] - p[2]*q[1] + p[3]*q[4],
       p[4]*q[4] - p[1]*q[1] - p[2]*q[2] - p[3]*q[3] >>

Norm2(q) == q[1]*q[1] + q[2]*q[2] + q[3]*q[3] + q[4]*q[4]

\* Rotation.apply([0,0,1]) of the normalised q: the third column of its
\* rotation matrix, as integer numerators over Norm2(q)
ApplyZ(q) ==
    << 2 * (q[1]*q[3] + q[4]*q[2]),
       2 * (q[2]*q[3] - q[4]*q[1]),
       Norm2(q) - 2 * (q[1]*q[1] + q[2]*q[2]) >>

\* np.degrees(np.arctan2(y, x)) on axis directions
Atan2Deg(y, x) ==
    CASE y = 0 /\ x > 0 -> Deg(0)
      [] y > 0 /\ x = 0 -> Deg(90)
      [] y = 0 /\ x < 0 -> Deg(180)
      [] y < 0 /\ x = 0 -> Deg(-90)
      [] y = 0 /\ x = 0 -> Deg(0)

\* np.degrees(np.arcsin(z / n)) on axis directions
AsinDeg(z, n) ==
    CASE z = n  -> Deg(90)
      [] z = 0  -> Deg(0)
      [] z = -n -> Deg(-90)

\* corrected_r = boresight_r * det_r for one time sample, then lines 99-103:
\* <<dec_det, ra_det>> of that sample
Pointing(bq, det_q) ==
    LET corrected == QuatMul(VectorFirst(bq), det_q)
        v == ApplyZ(corrected)
    IN  << AsinDeg(v[3], Norm2(corrected)),
           Atan2Deg(v[2], v[1]) % Deg(360) >>

\* Boresight quaternions of the frames tried (scalar-first): the identity,
\* the 120-degree turn taking z to x, and its inverse taking z to y.
BoreQuats == { <<1, 0, 0, 0>>, <<1, 1, 1, 1>>, <<1, -1, -1, -1>> }

\* Detector offsets of the focalplane tables tried (vector-first): the
\* identity and the half turn about x.
DetQuats == { <<0, 0, 0, 1>>, <<1, 0, 0, 0>> }

(***************************************************************************)
(* np.histogram2d(dec, ra, bins=[dec_edges, ra_edges], weights=w)          *)
(***************************************************************************)
\* Mutant: the last bin is left half-open like the others (no correction
\* for a sample exactly on the last edge)
BinNumberHalfOpen(v, len, n, c) ==
    Cardinality({ i \in 0 .. n : EdgeNum(len, n, c, i) <= v * EdgeDen(n) })

\* Mutant: searchsorted with side='left', so that a sample exactly on an
\* edge is given to the bin below it
BinNumberLeft(v, len, n, c) ==
    Cardinality({ i \in 0 .. n : EdgeNum(len, n, c, i) < v * EdgeDen(n) })

\* Bin number of coordinate v among the n + 1 edges of an axis, as numpy
\* computes it: searchsorted(edges, v, side='right'), minus one when v is
\* exactly the last edge.  0 and n + 1 are the outlier bins.
BinNumber(v, len, n, c) ==
    LET below == Cardinality({ i \in 0 .. n :
                     EdgeNum(len, n, c, i) <= v * EdgeDen(n) })
        on_edge == (v * EdgeDen(n) = EdgeNum(len, n, c, n))
    IN  IF on_edge THEN below - 1 ELSE below

\* The pixel of a sample, or <<-1, -1>> when it falls in an outlier bin
PixelOf(a, rows, cols, dec, ra) ==
    LET i == BinNumber(dec, a.ylen, rows, a.dec0)
        j == BinNumber(ra, a.xlen, cols, a.ra0)
    IN  IF 1 <= i /\ i <= rows /\ 1 <= j /\ j <= cols
        THEN <<i - 1, j - 1>>
        ELSE <<-1, -1>>

\* Lines 96-103 for one time sample, tabulated over the quaternions tried
PointingOf ==
    [ bq \in BoreQuats |-> [ det_q \in DetQuats |-> Pointing(bq, det_q) ] ]

\* Lines 96-108 for one time sample, tabulated: the pixel that
\* np.histogram2d gives the sample of boresight bq and detector offset
\* det_q on the grid built from the constructor arguments a
SamplePixel ==
    [ a \in { c \in Configs : Construct(c).error = "none" } |->
        [ bq \in BoreQuats |->
            [ det_q \in DetQuats |->
                PixelOf(a, Construct(a).ny, Construct(a).nx,
                        PointingOf[bq][det_q][1], PointingOf[bq][det_q][2]) ] ] ]

\* np.bincount over the first s samples: the weight of every sample that is
\* in no outlier bin is added to its pixel
RECURSIVE Bincount(_, _, _, _, _)
Bincount(rows, cols, pix, w, s) ==
    IF s = 0 THEN [ p \in Pixels(rows, cols) |-> 0 ]
    ELSE LET hist == Bincount(rows, cols, pix, w, s - 1)
         IN  IF pix[s] \in DOMAIN hist
             THEN [hist EXCEPT ![pix[s]] = @ + w[s]]
             ELSE hist

\* np.histogram2d(dec_det, ra_det, bins=[dec_edges, ra_edges], weights=w),
\* given the pixel of every sample
Histogram2d(rows, cols, pix, w) == Bincount(rows, cols, pix, w, Len(pix))

(***************************************************************************)
(* Frames.                                                                 *)
(***************************************************************************)
Kids == { "kid_a", "kid_b" }

RawValues == { -3, 3 }

\* The companion fields compress_signal_<kid>_gain / _offset of a Scan
\* frame: both absent, or both present.
CompressOptions ==
    { [has_gain |-> FALSE, has_offset |-> FALSE, gain |-> 1, offset |-> 0],
      [has_gain |-> TRUE,  has_offset |-> TRUE,  gain |-> 3, offset |-> 2] }

SeqsUpTo(S, n) == UNION { [1 .. k -> S] : k \in 0 .. n }

\* Orderings of distinct detector ids (the keys of frame["signal"])
KeyOrders ==
    { k \in SeqsUpTo(Kids, Cardinality(Kids)) :
        \A i, j \in 1 .. Len(k) : i # j => k[i] # k[j] }

\* frame["focalplane"]: bytes that h5py cannot read, or a table of rows
\* (name, quat).  The tables tried: empty, one detector, the other detector
\* with the half turn, both detectors, and one name given twice.
FocalplaneBlobs ==
    { [readable |-> FALSE, rows |-> << >>],
      [readable |-> TRUE,  rows |-> << >>],
      [readable |-> TRUE,  rows |-> << [name |-> "kid_a", quat |-> <<0, 0, 0, 1>>] >>],
      [readable |-> TRUE,  rows |-> << [name |-> "kid_b", quat |-> <<1, 0, 0, 0>>] >>],
      [readable |-> TRUE,  rows |-> << [name |-> "kid_a", quat |-> <<0, 0, 0, 1>>],
                                       [name |-> "kid_b", quat |-> <<0, 0, 0, 1>>] >>],
      [readable |-> TRUE,  rows |-> << [name |-> "kid_a", quat |-> <<1, 0, 0, 0>>],
                                       [name |-> "kid_a", quat |-> <<0, 0, 0, 1>>] >>] }

CalibrationFrames ==
    { [type |-> "Calibration", focalplane |-> b] : b \in FocalplaneBlobs }

\* Scan frames: every timestream is as long as the boresight stream
ScanFrames ==
    UNION { UNION {
        { [type |-> "Scan", keys |-> k, shared_boresight_radec |-> b,
           signal |-> sig, compress |-> c] :
             sig \in [ { k[i] : i \in 1 .. Len(k) } -> [1 .. n -> RawValues] ],
             c \in [ { k[i] : i \in 1 .. Len(k) } -> CompressOptions ] } :
          b \in [1 .. n -> BoreQuats], k \in KeyOrders } :
        n \in 1 .. MaxSamples }

EndFrames == { [type |-> "EndProcessing"] }

OtherFrames == { [type |-> "Observation"], [type |-> "Wiring"] }

Frames == CalibrationFrames \cup ScanFrames \cup EndFrames \cup OtherFrames

NoFrame == [type |-> "(no call)"]

NoMap == << >>

ZeroMap(rows, cols) == [ p \in Pixels(rows, cols) |-> 0 ]

Total(m) == SumOver(DOMAIN m, m)

(***************************************************************************)
(* Process, Calibration branch (lines 60-67).                              *)
(***************************************************************************)
\* dict(zip(names, quats)): a later row of the same name wins
RECURSIVE DictOfRows(_)
DictOfRows(rows) ==
    IF rows = << >> THEN << >>
    ELSE LET n == Len(rows)
             head == DictOfRows(SubSeq(rows, 1, n - 1))
         IN  [ k \in DOMAIN head \cup { rows[n].name } |->
                 IF k = rows[n].name THEN rows[n].quat ELSE head[k] ]

\* Mutant: the decoded rows are merged into the table in place
\* (det_offset_dict.update), so entries of the previous table survive
LoadOffsetsMerging(old, blob) ==
    IF ~blob.readable
    THEN [dict |-> old, raised |-> "OSError"]
    ELSE LET new == DictOfRows(blob.rows)
         IN  [dict |-> [ k \in DOMAIN old \cup DOMAIN new |->
                           IF k \in DOMAIN new THEN new[k] ELSE old[k] ],
              raised |-> "none"]

\* The table after the branch, and the exception it raises: h5py.File
\* raises OSError on bytes it cannot read, before the assignment of line 66.
LoadOffsets(old, blob) ==
    IF ~blob.readable
    THEN [dict |-> old, raised |-> "OSError"]
    ELSE [dict |-> DictOfRows(blob.rows), raised |-> "none"]

(***************************************************************************)
(* Process, Scan branch (lines 69-116).                                    *)
(***************************************************************************)
\* Lines 85-93: y = y_raw/gain + offset when both fields are in the frame
Physical(y_raw, c) ==
    IF c.has_gain /\ c.has_offset
    THEN [ s \in DOMAIN y_raw |-> (y_raw[s] \div c.gain) + c.offset ]
    ELSE y_raw

\* Lines 96-108: the pixel of every time sample of one detector
DetPixels(a, boresight, det_q) ==
    [ s \in DOMAIN boresight |-> SamplePixel[a][boresight[s]][det_q] ]

\* Mutant: sky_map = hist instead of sky_map += hist
BinDetectorAssigns(a, rows, cols, f, kid, det_q, sky, hits) ==
    LET y == Physical(f.signal[kid], f.compress[kid])
        pix == DetPixels(a, f.shared_boresight_radec, det_q)
        hist == Histogram2d(rows, cols, pix, y)
        ones == [ s \in DOMAIN pix |-> 1 ]
        counts == Histogram2d(rows, cols, pix, ones)
    IN  [ sky  |-> [ p \in DOMAIN sky |-> hist[p] ],
          hits |-> [ p \in DOMAIN hits |-> hits[p] + counts[p] ] ]

\* Lines 105-114 for one detector whose offset is det_q: both grids after
\* sky_map += hist and hits_map += hits.astype(int)
BinDetector(a, rows, cols, f, kid, det_q, sky, hits) ==
    LET y == Physical(f.signal[kid], f.compress[kid])
        pix == DetPixels(a, f.shared_boresight_radec, det_q)
        hist == Histogram2d(rows, cols, pix, y)
        ones == [ s \in DOMAIN pix |-> 1 ]
        counts == Histogram2d(rows, cols, pix, ones)
    IN  [ sky  |-> [ p \in DOMAIN sky |-> sky[p] + hist[p] ],
          hits |-> [ p \in DOMAIN hits |-> hits[p] + counts[p] ] ]

\* Mutant: a detector that is not in the table is skipped
\* (if kid not in self.det_offset_dict: continue) instead of raising
RECURSIVE ScanLoopSkipping(_, _, _, _, _, _, _, _)
ScanLoopSkipping(a, rows, cols, dict, f, sky, hits, k) ==
    IF k = 0 THEN [sky |-> sky, hits |-> hits, raised |-> "none"]
    ELSE LET before == ScanLoopSkipping(a, rows, cols, dict, f, sky, hits, k - 1)
             kid == f.keys[k]
         IN  IF kid \notin DOMAIN dict THEN before
             ELSE LET binned == BinDetector(a, rows, cols, f, kid, dict[kid],
                                            before.sky, before.hits)
                  IN  [sky |-> binned.sky, hits |-> binned.hits,
                       raised |-> "none"]

\* The loop of line 83 over the first k keys: the grids it leaves and the
\* exception it raises.  self.det_offset_dict[kid] raises KeyError for an
\* id that is not in the table, which leaves the loop at once; the grids
\* keep what the earlier detectors added.
RECURSIVE ScanLoop(_, _, _, _, _, _, _, _)
ScanLoop(a, rows, cols, dict, f, sky, hits, k) ==
    IF k = 0 THEN [sky |-> sky, hits |-> hits, raised |-> "none"]
    ELSE LET before == ScanLoop(a, rows, cols, dict, f, sky, hits, k - 1)
             kid == f.keys[k]
         IN  IF before.raised # "none" THEN before
             ELSE IF kid \notin DOMAIN dict
             THEN [before EXCEPT !.raised = "KeyError"]
             ELSE LET binned == BinDetector(a, rows, cols, f, kid, dict[kid],
                                            before.sky, before.hits)
                  IN  [sky |-> binned.sky, hits |-> binned.hits,
                       raised |-> "none"]

(***************************************************************************)
(* Process, EndProcessing branch (lines 119-148).                          *)
(***************************************************************************)
\* Mutant: the final map is the average, sky_map / hits_map, where hit
FinalMapOfAveraged(sky, hits) ==
    [ p \in DOMAIN sky |-> IF hits[p] > 0 THEN sky[p] \div hits[p] ELSE 0 ]

\* Lines 124-126: zeros, overwritten by sky_map where hits_map > 0
FinalMapOf(sky, hits) ==
    [ p \in DOMAIN sky |-> IF hits[p] > 0 THEN sky[p] ELSE 0 ]

(***************************************************************************)
(* The state machine.                                                      *)
(***************************************************************************)
Init ==
    /\ args \in Configs
    /\ ctor_error = Construct(args).error
    /\ nx = Construct(args).nx
    /\ ny = Construct(args).ny
    /\ sky_map = IF ctor_error = "none" THEN ZeroMap(ny, nx) ELSE NoMap
    /\ hits_map = IF ctor_error = "none" THEN ZeroMap(ny, nx) ELSE NoMap
    /\ det_offset_dict = << >>
    /\ pc = "idle"
    /\ frame = NoFrame
    /\ returned = "None"
    /\ raised = "none"
    /\ final_map = NoMap
    /\ shown_map = NoMap

\* Process(frame) on a Calibration frame
ProcessCalibration ==
    /\ ctor_error = "none"
    /\ pc = "idle"
    /\ \E f \in CalibrationFrames :
         \E out \in { LoadOffsets(det_offset_dict, f.focalplane) } :
           /\ frame' = f
           /\ det_offset_dict' = out.dict
           /\ raised' = out.raised
           /\ returned' = IF out.raised = "none" THEN "frame" ELSE "None"
    /\ pc' = "done"
    /\ UNCHANGED <<args, ctor_error, nx, ny, sky_map, hits_map,
                   final_map, shown_map>>

\* Process(frame) on a Scan frame
ProcessScan ==
    /\ ctor_error = "none"
    /\ pc = "idle"
    /\ \E f \in ScanFrames :
         \E out \in { ScanLoop(args, ny, nx, det_offset_dict, f,
                               sky_map, hits_map, Len(f.keys)) } :
           /\ Total(out.hits) <= MaxHits
           /\ frame' = f
           /\ sky_map' = out.sky
           /\ hits_map' = out.hits
           /\ raised' = out.raised
           /\ returned' = IF out.raised = "none" THEN "frame" ELSE "None"
    /\ pc' = "done"
    /\ shown_map' = NoMap
    /\ UNCHANGED <<args, ctor_error, nx, ny, det_offset_dict, final_map>>

\* Mutant: the accumulators are cleared once the map has been plotted
ProcessEndProcessingClearing ==
    /\ ctor_error = "none"
    /\ pc = "idle"
    /\ frame' \in EndFrames
    /\ final_map' = FinalMapOf(sky_map, hits_map)
    /\ sky_map' = ZeroMap(ny, nx)
    /\ hits_map' = ZeroMap(ny, nx)
    /\ returned' = "frame"
    /\ raised' = "none"
    /\ pc' = "done"
    /\ UNCHANGED <<args, ctor_error, nx, ny, det_offset_dict, shown_map>>

\* Process(frame) on an EndProcessing frame
ProcessEndProcessing ==
    /\ ctor_error = "none"
    /\ pc = "idle"
    /\ frame' \in EndFrames
    /\ final_map' = FinalMapOf(sky_map, hits_map)
    /\ returned' = "frame"
    /\ raised' = "none"
    /\ pc' = "done"
    /\ UNCHANGED <<self_vars, shown_map>>

\* Mutant: a frame of another type is taken for the start of a new
\* observation and the offset table is dropped
ProcessOtherResetting ==
    /\ ctor_error = "none"
    /\ pc = "idle"
    /\ frame' \in OtherFrames
    /\ det_offset_dict' = << >>
    /\ returned' = "None"
    /\ raised' = "none"
    /\ pc' = "done"
    /\ UNCHANGED <<args, ctor_error, nx, ny, sky_map, hits_map,
                   final_map, shown_map>>

\* Process(frame) on any other frame: no branch matches, Process falls off
\* its end and returns None
ProcessOther ==
    /\ ctor_error = "none"
    /\ pc = "idle"
    /\ frame' \in OtherFrames
    /\ returned' = "None"
    /\ raised' = "none"
    /\ pc' = "done"
    /\ UNCHANGED <<self_vars, final_map, shown_map>>

\* The call is over: its argument, result and locals are gone
Return ==
    /\ pc = "done"
    /\ pc' = "idle"
    /\ frame' = NoFrame
    /\ returned' = "None"
    /\ raised' = "none"
    /\ final_map' = NoMap
    /\ shown_map' = IF frame.type = "EndProcessing" THEN final_map ELSE shown_map
    /\ UNCHANGED self_vars

Next ==
    \/ ProcessCalibration
    \/ ProcessScan
    \/ ProcessEndProcessing
    \/ ProcessOther
    \/ Return

Spec == Init /\ [][Next]_vars

(***************************************************************************)
(* Vocabulary of the properties.                                           *)
(***************************************************************************)
\* A step that is a whole Process call on a frame of the given type
ScanStep == pc' = "done" /\ frame'.type = "Scan"
CalibrationStep == pc' = "done" /\ frame'.type = "Calibration"
EndStep == pc' = "done" /\ frame'.type = "EndProcessing"

GridsUnchanged == sky_map' = sky_map /\ hits_map' = hits_map

\* The positions in f.keys of the detectors the loop bins against table
\* dict: those before the first id that is not in dict
Binned(f, dict) ==
    { i \in 1 .. Len(f.keys) : \A j \in 1 .. i : f.keys[j] \in DOMAIN dict }

HasUnknown(f, dict) == \E i \in 1 .. Len(f.keys) : f.keys[i] \notin DOMAIN dict

\* C1 (as claimed): a Scan frame naming at least one detector that is not in
\* the offset table raises an error and leaves sky_map and hits_map exactly
\* as they were, whatever the order of the detectors in the batch.
C1_AllOrNothingScan ==
    [][ (ScanStep /\ HasUnknown(frame', det_offset_dict))
           => (raised' # "none" /\ GridsUnchanged) ]_vars

C3_ConstructionRejectsEmptyGrid ==
    LET bad == \/ args.res <= 0
               \/ args.xlen \div args.res = 0
               \/ args.ylen \div args.res = 0
    IN  /\ bad => ctor_error # "none"
        /\ ~bad => (ctor_error = "none" /\ ny >= 1 /\ nx >= 1)

\* C4: a Calibration frame whose focalplane blob cannot be decoded raises
\* and leaves the offset table exactly as it was; one that decodes replaces
\* the whole table: the new table holds the names of the new rows and no
\* other, each with the quaternion of its last row (nothing of the previous
\* table survives by merging).
C4_CalibrationReplacesOrKeeps ==
    [][ CalibrationStep =>
          LET blob == frame'.focalplane
              rows == blob.rows
          IN  IF ~blob.readable
              THEN raised' # "none" /\ det_offset_dict' = det_offset_dict
              ELSE /\ raised' = "none"
                   /\ DOMAIN det_offset_dict' =
                         { rows[i].name : i \in 1 .. Len(rows) }
                   /\ \A i \in 1 .. Len(rows) :
                         (\A j \in (i + 1) .. Len(rows) :
                              rows[j].name # rows[i].name)
                            => det_offset_dict'[rows[i].name] = rows[i].quat
        ]_vars

\* Witness of C4: an undecodable blob was rejected while a table with both
\* detectors was in place, and that table is still there
C4_Witness ==
    /\ pc = "done" /\ frame.type = "Calibration"
    /\ ~frame.focalplane.readable
    /\ raised = "OSError"
    /\ DOMAIN det_offset_dict = Kids

\* The samples of a Scan frame are judged against the grid by its edges
\* alone: v is inside an axis when first edge <= v <= last edge.
InsideAxis(v, len, n, c) ==
    /\ n >= 1
    /\ EdgeNum(len, n, c, 0) <= v * EdgeDen(n)
    /\ v * EdgeDen(n) <= EdgeNum(len, n, c, n)

InsideGrid(a, rows, cols, pt) ==
    /\ InsideAxis(pt[1], a.ylen, rows, a.dec0)
    /\ InsideAxis(pt[2], a.xlen, cols, a.ra0)

\* InsideGrid of the sample of boresight bq and detector offset det_q,
\* tabulated
SampleInside ==
    [ a \in { c \in Configs : Construct(c).error = "none" } |->
        [ bq \in BoreQuats |->
            [ det_q \in DetQuats |->
                InsideGrid(a, Construct(a).ny, Construct(a).nx,
                           PointingOf[bq][det_q]) ] ] ]

\* Number of samples of the detector at position i of f.keys that are
\* inside the grid
InsideCount(a, f, dict, i) ==
    Cardinality({ s \in 1 .. Len(f.shared_boresight_radec) :
        SampleInside[a][f.shared_boresight_radec[s]][dict[f.keys[i]]] })

\* C5: conservation of hits.  Across a Scan frame the total of hits_map grows
\* by exactly the number of samples, over the detectors binned, whose
\* (dec, ra) is inside the grid's edge range, lowest and highest edge
\* included; when there is no such sample neither grid changes, and no error
\* comes from a sample being outside.
C5_HitsConserved ==
    [][ ScanStep =>
          LET idx == Binned(frame', det_offset_dict)
              inside == [ i \in idx |->
                            InsideCount(args, frame', det_offset_dict, i) ]
              n == SumOver(idx, inside)
          IN  /\ Total(hits_map') = Total(hits_map) + n
              /\ (n = 0) => GridsUnchanged
              /\ ~HasUnknown(frame', det_offset_dict) => raised' = "none"
        ]_vars

\* Witness of C5: on the grid with edges [0, 45, 90] degrees a sample at
\* dec = 0 (the lowest edge), ra = 90 (the highest edge) was counted
C5_Witness ==
    /\ pc = "done" /\ frame.type = "Scan" /\ raised = "none"
    /\ args.ra0 = Deg(45) /\ nx = 2
    /\ \E i \in 1 .. Len(frame.keys) :
         frame.keys[i] \in DOMAIN det_offset_dict /\
         PointingOf[frame.shared_boresight_radec[1]]
                   [det_offset_dict[frame.keys[i]]] = <<Deg(0), Deg(90)>>
    /\ hits_map[<<0, 1>>] >= 1

\* C6: finalization is a pure read and is idempotent.  A call on an
\* EndProcessing frame leaves sky_map, hits_map and the offset table
\* unchanged, and builds the same final map as the latest earlier
\* EndProcessing call when no Scan frame was handled in between.
C6_FinalizeIdempotent ==
    [][ EndStep =>
          /\ GridsUnchanged
          /\ det_offset_dict' = det_offset_dict
          /\ (shown_map # NoMap) => (final_map' = shown_map) ]_vars

\* Witness of C6: a second EndProcessing call, with samples in the grids
C6_Witness ==
    /\ pc = "done" /\ frame.type = "EndProcessing"
    /\ shown_map # NoMap
    /\ final_map = shown_map
    /\ Total(hits_map) > 0

\* C7 (as claimed): every call that returns, returns the frame it was given.
C7_EveryFrameReturned ==
    (pc = "done" /\ raised = "none") => returned = "frame"

\* C7 (amended): a call on a Calibration, Scan or EndProcessing frame that
\* does not raise returns the frame it was given; a call on a frame of any
\* other type returns None, raises nothing and changes neither the offset
\* table nor the grids.
C7_PassThrough ==
    [][ (pc' = "done") =>
          IF frame'.type \in { "Calibration", "Scan", "EndProcessing" }
          THEN (raised' = "none") => returned' = "frame"
          ELSE /\ returned' = "None"
               /\ raised' = "none"
               /\ GridsUnchanged
               /\ det_offset_dict' = det_offset_dict ]_vars

\* Witness of C7: a frame of another type was handled by a module that holds
\* a table and samples
C7_Witness ==
    /\ pc = "done" /\ frame.type = "Wiring"
    /\ returned = "None"
    /\ det_offset_dict # << >>
    /\ Total(hits_map) > 0

\* The physical samples of the detector at position i of f.keys
PhysicalAt(f, i) == Physical(f.signal[f.keys[i]], f.compress[f.keys[i]])

\* C8 (as claimed): across every Scan frame, at every pixel, hits_map never
\* decreases and the magnitude of sky_map never decreases, whatever the
\* signs of the samples.
C8_MagnitudeNeverDecreases ==
    [][ ScanStep =>
          \A p \in DOMAIN sky_map :
              /\ hits_map'[p] >= hits_map[p]
              /\ Abs(sky_map'[p]) >= Abs(sky_map[p]) ]_vars

\* C8 (amended): hits_map never decreases at any pixel, in any call, and a
\* call on an EndProcessing frame writes neither grid.  sky_map is a signed
\* sum: across a Scan frame whose binned physical samples are all >= 0 a
\* pixel holding a sum >= 0 does not decrease, and symmetrically for <= 0, so
\* the magnitude is kept only while the signs agree.
C8_HitsMonotoneSignedSum ==
    [][ (pc' = "done") =>
          /\ \A p \in DOMAIN hits_map : hits_map'[p] >= hits_map[p]
          /\ EndStep => GridsUnchanged
          /\ ScanStep =>
               LET idx == Binned(frame', det_offset_dict)
                   nonneg == \A i \in idx : \A s \in DOMAIN PhysicalAt(frame', i) :
                                 PhysicalAt(frame', i)[s] >= 0
                   nonpos == \A i \in idx : \A s \in DOMAIN PhysicalAt(frame', i) :
                                 PhysicalAt(frame', i)[s] <= 0
               IN  \A p \in DOMAIN sky_map :
                     /\ (nonneg /\ sky_map[p] >= 0) => sky_map'[p] >= sky_map[p]
                     /\ (nonpos /\ sky_map[p] <= 0) => sky_map'[p] <= sky_map[p]
        ]_vars

\* Witness of C8: a Scan frame of samples >= 0 has added to a pixel that
\* already held a sample
C8_Witness ==
    /\ pc = "done" /\ frame.type = "Scan" /\ raised = "none"
    /\ frame.keys # << >>
    /\ \A i \in 1 .. Len(frame.keys) : PhysicalAt(frame, i)[1] > 0
    /\ \E p \in DOMAIN hits_map :
         /\ hits_map[p] = 2
         /\ sky_map[p] = 4
         /\ Len(frame.keys) = 1
         /\ Len(frame.shared_boresight_radec) = 1

\* The bin of coordinate v on an axis by the rule of the specification: the
\* unique i with edges[i] <= v < edges[i+1], the last bin when v is the last
\* edge, and -1 when v is outside
RuleBin(v, len, n, c) ==
    IF n >= 1 /\ v * EdgeDen(n) = EdgeNum(len, n, c, n) THEN n - 1
    ELSE IF \E i \in 0 .. n - 1 :
               /\ EdgeNum(len, n, c, i) <= v * EdgeDen(n)
               /\ v * EdgeDen(n) < EdgeNum(len, n, c, i + 1)
    THEN CHOOSE i \in 0 .. n - 1 :
               /\ EdgeNum(len, n, c, i) <= v * EdgeDen(n)
               /\ v * EdgeDen(n) < EdgeNum(len, n, c, i + 1)
    ELSE -1

RulePixel(a, rows, cols, pt) ==
    << RuleBin(pt[1], a.ylen, rows, a.dec0), RuleBin(pt[2], a.xlen, cols, a.ra0) >>

\* RulePixel of the sample of boresight bq and detector offset det_q,
\* tabulated
SampleRulePixel ==
    [ a \in { c \in Configs : Construct(c).error = "none" } |->
        [ bq \in BoreQuats |->
            [ det_q \in DetQuats |->
                RulePixel(a, Construct(a).ny, Construct(a).nx,
                          PointingOf[bq][det_q]) ] ] ]

\* What the samples of the detector at position i of f.keys add to pixel p
\* by that rule: w[s] for every sample s whose pixel is p
RuleAdds(a, f, dict, i, w, p) ==
    SumOver({ s \in 1 .. Len(f.shared_boresight_radec) :
                SampleRulePixel[a][f.shared_boresight_radec[s]][dict[f.keys[i]]] = p },
            w)

\* C9: binning rule.  Across a Scan frame every pixel's sky_map grows by the
\* physical values, and its hits_map by the number, of the samples of the
\* binned detectors that the rule assigns to that pixel; no other pixel
\* changes.
C9_BinningRule ==
    [][ ScanStep =>
          LET idx == Binned(frame', det_offset_dict)
          IN  \A p \in DOMAIN sky_map :
                LET sig == [ i \in idx |->
                              RuleAdds(args, frame', det_offset_dict, i,
                                       PhysicalAt(frame', i), p) ]
                    cnt == [ i \in idx |->
                              RuleAdds(args, frame', det_offset_dict, i,
                                       [ s \in DOMAIN PhysicalAt(frame', i) |-> 1 ], p) ]
                IN  /\ sky_map'[p] = sky_map[p] + SumOver(idx, sig)
                    /\ hits_map'[p] = hits_map[p] + SumOver(idx, cnt)
        ]_vars

\* Witness of C9: on the 2x2 grid with edges [-0.5, 0, 0.5] degrees one
\* sample at dec = 0, ra = 0 of physical value 3.0 has made pixel (1,1) hold
\* hits_map 1 and sky_map 3, every other pixel still zero
C9_Witness ==
    /\ pc = "done" /\ frame.type = "Scan" /\ raised = "none"
    /\ args = [ra0 |-> 0, dec0 |-> 0, xlen |-> 2, ylen |-> 2, res |-> 1]
    /\ frame.keys = << "kid_a" >>
    /\ PointingOf[frame.shared_boresight_radec[1]][det_offset_dict["kid_a"]]
          = <<Deg(0), Deg(0)>>
    /\ PhysicalAt(frame, 1) = << 3 >>
    /\ hits_map = [ p \in Pixels(2, 2) |-> IF p = <<1, 1>> THEN 1 ELSE 0 ]
    /\ sky_map = [ p \in Pixels(2, 2) |-> IF p = <<1, 1>> THEN 3 ELSE 0 ]

====
